---- MODULE Spec2Model ----
(***************************************************************************)
(* Model of the media synchronisation engine of jellyfin-refresh           *)
(* (scripts/media_sync.py): symlink scan, resolution classification,       *)
(* tagging rename, temp-then-rename publish and the per-source watermark.  *)
(*                                                                         *)
(* Time is counted in ticks, TicksPerSec ticks to a second: link           *)
(* modification times keep their sub-second part (st_mtime is a float),    *)
(* while the watermark is int(time.time()), whole seconds.                 *)
(***************************************************************************)
EXTENDS Integers, Sequences, FiniteSets, TLC

VARIABLES clock, srcFS, destFS, tmpFS, wm, run, obs, nRename, nClassify,
          quiet, passes, faults, req, sched, watch, exp, call

vars == <<clock, srcFS, destFS, tmpFS, wm, run, obs, nRename, nClassify,
          quiet, passes, faults, req, sched, watch, exp, call>>

\* The state of the engine and of the trees it works on.
engine == <<clock, srcFS, destFS, tmpFS, wm, run, obs, nRename, nClassify,
            quiet, passes, faults>>

\* The state of the callers of the engine: a request handler, the
\* scheduler loop, the watcher loop, the bookkeeping of an experiment that
\* runs two passes in both orders, and one call of a helper function taken
\* by itself.
drivers == <<req, sched, watch, exp, call>>

---------------------------------------------------------------------------
\* Bounds of the model.

\* Source links ever created.
MaxLinks == 2
\* Passes ever started.
MaxPasses == 2
\* Failures the environment ever injects (a broken link, a failed probe,
\* rename, symlink, replace or write, a kill, an incomplete rmtree).
MaxFaults == 1
\* Ticks the clock advances after its start.
MaxTicks == 2

\* Ticks in one second.
TicksPerSec == 2
\* The clock starts at second 1 (the epoch itself is never "now").
StartClock == TicksPerSec

\* Program constants: pixel widths that separate the labels.
Width2160 == 3800
Width1080 == 1900

None == "None"

\* The four source roots (SRC_MOVIES_4K, SRC_MOVIES_1080, SRC_TV_4K,
\* SRC_TV_1080), two mounts for each of the two libraries.
MovieSources == {"movies_4k", "movies_1080"}

TvSources == {"tv_4k", "tv_1080"}

Sources == MovieSources \cup TvSources

\* is_tv as the wrappers pass it.
is_tv(s) == s \in TvSources

\* The destination root of a source: DEST_TV or DEST_MOVIES, shared by the
\* two mounts of a library.
dest_root(s) == IF is_tv(s) THEN "shows" ELSE "movies"

\* Movie or show directories under a source root and under its destination
\* root.
Movies == {"A", "B"}

\* The season directory of the shows, and the episode codes in basenames.
Season == "S01"

Episodes == {"S01E01", "S01E02"}

\* Execution contexts that may drive a pass.
Procs == {"scheduler", "request", "watcher"}

Labels == {"2160p", "1080p", "720p"}

default_res(s) == IF s \in {"movies_4k", "tv_4k"} THEN "2160p" ELSE "1080p"

---------------------------------------------------------------------------
\* Resolution classification.  A name is the set of the tokens it contains
\* (lower-cased substring tests).

_detect_filename_res(n) ==
    IF n \cap {"2160", "4k", "uhd"} # {} THEN "2160p"
    ELSE IF "1080" \in n THEN "1080p"
    ELSE None

_detect_keyword_res(n) ==
    IF n \cap {"dv", "dovi", "hdr"} # {} THEN "2160p"
    ELSE IF "avc" \in n THEN "1080p"
    ELSE None

_detect_folder_res(n) ==
    IF n \cap {"2160", "4k"} # {} THEN "2160p"
    ELSE IF "1080" \in n THEN "1080p"
    ELSE None

\* ffprobe's answer: a pixel width, or ProbeFailed (tool missing, timeout,
\* empty or non-numeric output).
ProbeFailed == -1

_probe_resolution(out) ==
    IF out = ProbeFailed THEN None
    ELSE IF out >= Width2160 THEN "2160p"
    ELSE IF out >= Width1080 THEN "1080p"
    ELSE "720p"

\* What the probe may answer for target t: its true width, or a failure.
ProbeOutputs(t) == {ProbeFailed, t.width}

\* TRUE iff detect_resolution reaches the probe tier for target t.
NeedsProbe(t) ==
    /\ _detect_filename_res(t.fname) = None
    /\ _detect_keyword_res(t.fname) = None
    /\ _detect_folder_res(t.parent) = None

detect_resolution(t, dflt, out) ==
    IF _detect_filename_res(t.fname) # None THEN _detect_filename_res(t.fname)
    ELSE IF _detect_keyword_res(t.fname) # None THEN _detect_keyword_res(t.fname)
    ELSE IF _detect_folder_res(t.parent) # None THEN _detect_folder_res(t.parent)
    ELSE IF _probe_resolution(out) # None THEN _probe_resolution(out)
    ELSE dflt

\* The target files links point at: releases with a token-free name and
\* folder, whose video stream is 1920 wide.
TargetKinds ==
    { [fname |-> {}, parent |-> {}, width |-> 1920] }

---------------------------------------------------------------------------
\* File names.  A basename is its stem, the labels embedded in the stem and
\* the " - <label>" tags appended before the extension, in order.

\* ep is the episode code in the stem (re.search of [Ss]\d{2}[Ee]\d{2}), ""
\* in Python when there is none.
NoEp == "none"

FileName(stem, emb, ep) == [stem |-> stem, emb |-> emb, tags |-> <<>>, ep |-> ep]

LinkName(stem) == FileName(stem, {}, NoEp)

\* `res in basename`
HasRes(name, res) ==
    \/ res \in name.emb
    \/ \E k \in 1..Len(name.tags) : name.tags[k] = res

\* f"{name} - {res}{ext}"
TaggedName(name, res) == [name EXCEPT !.tags = Append(@, res)]

PathOf(l) == [src |-> l.src, dir |-> l.dir, season |-> l.season, name |-> l.name]

LinkAt(fs, path) == {l \in fs : PathOf(l) = path}

\* link_path.resolve(strict=True): the file the link points at.
ResolvedTarget(l) == [to |-> "file", id |-> l.id]

\* Lines 374-377: dest_root / show_dir / season_dir / basename, or
\* dest_root / movie_name / basename (season is None for a movie).
DestPath(root, dir, season, name) ==
    [root |-> root, dir |-> dir, season |-> season, name |-> name]

Remove(f, p) == [q \in DOMAIN f \ {p} |-> f[q]]

Put(f, p, v) == (p :> v) @@ f

---------------------------------------------------------------------------
\* The watermark file (cache_last_file): absent, empty, or the decimal text
\* of a whole number of seconds.

WmAbsent == [kind |-> "absent", val |-> 0]

WmEmpty == [kind |-> "empty", val |-> 0]

WmText(n) == [kind |-> "text", val |-> n]

\* int(cache_last_file.read_text().strip() or "0")
ReadWm(c) == IF c.kind = "text" THEN c.val ELSE 0

\* cache_last_file.touch(exist_ok=True)
Touch(c) == IF c.kind = "absent" THEN WmEmpty ELSE c

\* int(time.time())
NowTs(t) == t \div TicksPerSec

---------------------------------------------------------------------------
\* State of one pass of _sync_engine, and what an observer records of it.

NoTarget == [to |-> "none", id |-> 0]

NoPath == DestPath(None, None, None, LinkName(None))

IdleRun ==
    [ pc |-> "idle", src |-> "movies_4k", is_tv |-> FALSE, full |-> FALSE,
      filter_show |-> None, filter_episode |-> None, filter_movie |-> None,
      wipe_dest |-> FALSE, update_last_file |-> TRUE, prev_ts |-> 0,
      now_ts |-> 0, processed_any |-> FALSE, symlinks |-> <<>>, i |-> 1,
      target |-> NoTarget, dest_path |-> NoPath, ret |-> None ]

\* wm0: the watermark file when the pass began; visited: positions of the
\* scan that reached the per-entry pipeline; failed: links met broken or
\* whose publish failed; muts: renames and publishes actually performed;
\* wrote: the outcome of the watermark write; out: progress lines of the
\* last step; clean: no entry met a broken link, a failed rename or a failed
\* publish; interrupted: the pass was killed before it completed; repeat:
\* the pass repeats the one before it (same source, mode and filter, no
\* wipe), which ran to its end without a failure, the source tree untouched
\* in between; removed: the number of destination entries the wipe of the
\* pass removed.
IdleObs ==
    [ wm0 |-> WmAbsent, visited |-> {}, failed |-> {}, muts |-> 0,
      wrote |-> "no", out |-> {}, clean |-> TRUE, interrupted |-> FALSE,
      repeat |-> FALSE, removed |-> 0 ]

\* Where a pass stands inside a publish taken one system call at a time:
\* the test of line 381, then the statements of atomic_symlink (lines 207
\* to 214), the finally block keeping whether an exception is on its way.
PublishPcs ==
    { "check", "tmp_exists", "tmp_unlink", "symlink", "os_replace",
      "finally_ok", "finally_err", "unlink_ok", "unlink_err" }

Active(p) == run[p].pc \in {"loop", "replace"} \cup PublishPcs

\* A request handler of app.py: handler and name as posted, todo the calls
\* it has still to make, kept the destination entries under the show or
\* movie of the request that were there when it began and have been there
\* ever since, result what it returned.
IdleReq ==
    [ pc |-> "idle", handler |-> None, name |-> None, todo |-> << >>,
      kept |-> {}, result |-> None ]

\* auto_runner.loop: RUNNING is the module flag the signal handler clears;
\* todo the drains left in the iteration; rounds the iterations begun; at
\* the place of the loop when the signal came.
IdleSched ==
    [ pc |-> "off", RUNNING |-> TRUE, todo |-> << >>, rounds |-> 0,
      at |-> None ]

\* media_watcher.watcher_loop: stop is _stop_event; keys the roots left in
\* the iteration; last_fp as the local of that name (None: no entry);
\* called the roots whose wrapper was called in the iteration; rounds the
\* iterations begun; at the place of the loop when stop() was called.
IdleWatch ==
    [ pc |-> "off", stop |-> FALSE, keys |-> << >>,
      last_fp |-> [k \in Sources |-> << >>], called |-> {}, rounds |-> 0,
      at |-> None ]

\* An experiment on the order of two passes: step counts its stages, snap
\* holds the trees and watermarks it started from, first the destination
\* tree its first order ended with.
IdleExp ==
    [ step |-> 0, snapSrc |-> {}, snapDest |-> << >>, snapTmp |-> << >>,
      snapWm |-> [s \in Sources |-> WmAbsent], first |-> << >> ]

\* No helper function is being called by itself.
IdleCall == [pc |-> "none"]

\* The state after construction, but for the call of a helper.
InitTrees ==
    /\ clock = StartClock
    /\ srcFS = {}
    /\ destFS = << >>
    /\ tmpFS = << >>
    /\ wm = [s \in Sources |-> WmAbsent]
    /\ run = [p \in Procs |-> IdleRun]
    /\ obs = [p \in Procs |-> IdleObs]
    /\ nRename = [k \in 1..MaxLinks |-> 0]
    /\ nClassify = [k \in 1..MaxLinks |-> 0]
    /\ quiet = FALSE
    /\ passes = 0
    /\ faults = 0
    /\ req = IdleReq
    /\ sched = IdleSched
    /\ watch = IdleWatch
    /\ exp = IdleExp

Init == InitTrees /\ call = IdleCall

---------------------------------------------------------------------------
\* The environment: time passes and the upstream mount adds links.

Tick ==
    /\ \A p \in Procs : ~Active(p)
    /\ passes < MaxPasses
    /\ clock < StartClock + MaxTicks
    /\ clock' = clock + 1
    /\ UNCHANGED <<srcFS, destFS, tmpFS, wm, run, obs, nRename, nClassify,
                   quiet, passes, faults>>

LinksMade == Cardinality({k \in 1..MaxLinks : \E l \in srcFS : l.id >= k})

\* The season directory of a link under source s (a movie has none).
SeasonOf(s) == IF is_tv(s) THEN Season ELSE None

\* The upstream tool creates a link named n in directory d of source s,
\* pointing at a file of kind t.
AddNamedLink(s, d, n, t) ==
    LET l == [ id |-> LinksMade + 1, src |-> s, dir |-> d,
               season |-> SeasonOf(s), name |-> n, mtime |-> clock, tgt |-> t ]
    IN  /\ \A p \in Procs : ~Active(p)
        /\ passes < MaxPasses
        /\ LinksMade < MaxLinks
        /\ LinkAt(srcFS, PathOf(l)) = {}
        /\ srcFS' = srcFS \cup {l}
        /\ quiet' = FALSE
        /\ UNCHANGED <<clock, destFS, tmpFS, wm, run, obs, nRename, nClassify,
                       passes, faults>>

AddLink(s, d, t) == AddNamedLink(s, d, LinkName("m"), t)

---------------------------------------------------------------------------
\* find_symlinks_sorted: the links under the source root as (mtime, path),
\* newest first.  The sort is stable over the order of os.walk, which is
\* arbitrary: links of equal mtime come in any order.

find_symlinks_sorted(fs, s) ==
    LET L == {l \in fs : l.src = s}
        n == Cardinality(L)
    IN  { [k \in 1..n |-> [ts |-> f[k].mtime, path |-> PathOf(f[k])]] :
            f \in { g \in [1..n -> L] :
                      /\ \A a, b \in 1..n : a # b => g[a] # g[b]
                      /\ \A a, b \in 1..n : a < b => g[a].mtime >= g[b].mtime } }

\* shutil.rmtree(dest_root / name) inside wipe_dest_folder: what may be left
\* of the paths P under the folder.  A failed rmtree (logged, not raised)
\* has removed any part of the subtree.
WipeLeftovers(P) == SUBSET P

\* UpdateLastFile, mutated: only full counts, a filter does not.
UpdateLastFile_FullOnly(full, filter_show, filter_episode, filter_movie) ==
    ~full

\* Line 280: a full or filtered pass ignores and never updates the watermark.
UpdateLastFile(full, filter_show, filter_episode, filter_movie) ==
    ~(full \/ filter_show # None \/ filter_episode # None
           \/ filter_movie # None)

\* The keyword arguments the wrappers hand to _sync_engine (lines 419-473).
\* Only sync_movies_4k passes wipe_dest on.
EngineArgs(s, full, fshow, fep, fmovie, wipe) ==
    [ src |-> s, is_tv |-> is_tv(s), full |-> full, filter_show |-> fshow,
      filter_episode |-> fep, filter_movie |-> fmovie, wipe_dest |-> wipe ]

sync_movies_4k(full, movie_filter, wipe_dest) ==
    EngineArgs("movies_4k", full, None, None, movie_filter, wipe_dest)

sync_movies_1080(full, movie_filter) ==
    EngineArgs("movies_1080", full, None, None, movie_filter, FALSE)

sync_tv_4k(full, show_filter, episode_filter) ==
    EngineArgs("tv_4k", full, show_filter, episode_filter, None, FALSE)

sync_tv_1080(full, show_filter, episode_filter) ==
    EngineArgs("tv_1080", full, show_filter, episode_filter, None, FALSE)

\* Lines 260-270: the folder a pass wipes, None when it wipes nothing.
WipeTarget(a) ==
    IF ~a.wipe_dest THEN None
    ELSE IF a.is_tv THEN a.filter_show
    ELSE a.filter_movie

\* WipeScope, mutated: the whole destination root is removed.
WipeScope_Root(f, root, wiped) ==
    IF wiped = None THEN {} ELSE {q \in DOMAIN f : q.root = root}

\* Lines 263 and 268: the paths under dest_root / filter_show or dest_root /
\* filter_movie, which shutil.rmtree is asked to remove.
WipeScope(f, root, wiped) ==
    {q \in DOMAIN f : q.root = root /\ q.dir = wiped}

\* Lines 260-305 of _sync_engine, called with the arguments a: wipe, touch,
\* prev_ts, now_ts and the scan.  mkdir and touch of the watermark file
\* (lines 275-276) are outside any try: when they raise, the wipe is done
\* and the exception leaves the generator (pc "raised").  budget bounds the
\* passes ever started; reads holds the outcomes of reading the watermark
\* file that are taken into account (TRUE: it is read; FALSE: read_text or
\* int raises and line 287 sets prev_ts to 0); exclusive is the set of
\* processes of which none may be running a pass when this one starts.
StartPassFrom(p, a, budget, reads, exclusive) ==
    LET s == a.src
        full == a.full
        wiped == WipeTarget(a)
        inDir(f) == WipeScope(f, dest_root(s), wiped)
        doWipe == wiped # None
        upd == UpdateLastFile(full, a.filter_show, a.filter_episode,
                              a.filter_movie)
        old == run[p]
    IN  /\ \A q \in exclusive : ~Active(q)
        /\ passes < budget
        /\ passes' = passes + 1
        /\ \E keepD \in WipeLeftovers(inDir(destFS)),
              keepT \in WipeLeftovers(inDir(tmpFS)),
              scan \in find_symlinks_sorted(srcFS, s),
              touchOk \in BOOLEAN, readOk \in reads :
              /\ doWipe \/ (keepD = inDir(destFS) /\ keepT = inDir(tmpFS))
              /\ readOk \/ (upd /\ touchOk)
              /\ faults' = faults
                             + (IF doWipe /\ keepD \cup keepT # {} THEN 1 ELSE 0)
                             + (IF touchOk THEN 0 ELSE 1)
                             + (IF readOk THEN 0 ELSE 1)
              /\ faults' <= MaxFaults
              /\ destFS' = [q \in (DOMAIN destFS \ inDir(destFS)) \cup keepD
                              |-> destFS[q]]
              /\ tmpFS' = [q \in (DOMAIN tmpFS \ inDir(tmpFS)) \cup keepT
                              |-> tmpFS[q]]
              /\ run' = [run EXCEPT ![p] =
                   IF touchOk
                   THEN [ pc |-> "loop", src |-> s, is_tv |-> a.is_tv,
                          full |-> full, filter_show |-> a.filter_show,
                          filter_episode |-> a.filter_episode,
                          filter_movie |-> a.filter_movie,
                          wipe_dest |-> a.wipe_dest,
                          update_last_file |-> upd,
                          prev_ts |-> IF upd /\ readOk
                                      THEN ReadWm(Touch(wm[s])) ELSE 0,
                          now_ts |-> NowTs(clock), processed_any |-> FALSE,
                          symlinks |-> scan, i |-> 1,
                          target |-> NoTarget, dest_path |-> NoPath,
                          ret |-> None ]
                   ELSE [IdleRun EXCEPT
                           !.pc = "raised", !.src = s, !.is_tv = a.is_tv,
                           !.full = full, !.filter_show = a.filter_show,
                           !.filter_episode = a.filter_episode,
                           !.filter_movie = a.filter_movie,
                           !.wipe_dest = a.wipe_dest]]
              /\ wm' = IF touchOk THEN [wm EXCEPT ![s] = Touch(@)] ELSE wm
              /\ obs' = [obs EXCEPT ![p] =
                   [IdleObs EXCEPT
                      !.wm0 = wm[s],
                      !.out = IF doWipe
                              THEN {"Removing destination folder"} ELSE {},
                      !.removed = Cardinality(inDir(destFS) \ keepD),
                      !.repeat = /\ old.pc = "done" /\ quiet
                                 /\ obs[p].clean /\ ~obs[p].interrupted
                                 /\ old.src = s /\ old.full = full
                                 /\ old.filter_show = a.filter_show
                                 /\ old.filter_episode = a.filter_episode
                                 /\ old.filter_movie = a.filter_movie
                                 /\ ~old.wipe_dest /\ ~a.wipe_dest]]
        /\ quiet' = TRUE
        /\ UNCHANGED <<clock, srcFS, nRename, nClassify>>

\* A pass started while no other runs, its watermark file readable.
StartPassWithin(p, a, budget) == StartPassFrom(p, a, budget, {TRUE}, Procs)

StartPass(p, a) == StartPassWithin(p, a, MaxPasses)

---------------------------------------------------------------------------
\* The per-entry pipeline (the body of the loop over the scan).

\* EarlyStop, mutated: an entry dated exactly at the watermark is let
\* through.
EarlyStop_Strict(upd, ts, prev_ts) == upd /\ ts < prev_ts * TicksPerSec

\* Line 325: stop at the first entry at or older than the watermark.
EarlyStop(upd, ts, prev_ts) == upd /\ ts <= prev_ts * TicksPerSec

\* AlreadyLinked, mutated: the check of line 381 is missing.
AlreadyLinked_Never(fs, dest) == FALSE

\* Line 381: dest_path.exists() or dest_path.is_symlink()
AlreadyLinked(fs, dest) == dest \in DOMAIN fs

\* SymlinkTmp, mutated: the entry is built in place at the destination
\* path.
SymlinkTmp_InPlace(dfs, tfs, dest, target) ==
    [dest |-> Put(dfs, dest, [to |-> "partial", id |-> target.id]), tmp |-> tfs]

\* Line 209, os.symlink(target, tmp): the destination and temporary entries
\* after the link is created at the temporary sibling of dest.
SymlinkTmp(dfs, tfs, dest, target) ==
    [dest |-> dfs, tmp |-> Put(tfs, dest, target)]

\* Processed, mutated: processed_any is set whether or not the rename took
\* place.
Processed_Always(processed_any, renamed) == TRUE

\* Lines 365-369: processed_any after the tagging rename was tried.
Processed(processed_any, renamed) == processed_any \/ renamed

\* tmp.exists() at lines 207 and 212, for the temporary path of dest: it
\* follows the link, so it is TRUE iff the link is there and its target is.
\* answer: the target of a link that is there could be reached.
TmpExists(tfs, dest, answer) ==
    dest \in DOMAIN tfs /\ tfs[dest].to = "file" /\ answer

Bump(f, k) == [f EXCEPT ![k] = IF @ < 2 THEN @ + 1 ELSE @]

\* One link l, met at position r.i of the scan, from classification (line
\* 357) to the creation of the temporary link (line 209).  probe: ffprobe's
\* answer; renameOk: link_path.rename succeeds; tmpAlive, tmpAlive2:
\* tmp.exists() finds the target of a leftover temporary link (lines 207 and
\* 212); symOk: os.symlink succeeds.  asked: the answers the code waited for.
ProcessLink(r, o, l, probe, renameOk, tmpAlive, symOk, tmpAlive2) ==
    LET res == detect_resolution(l.tgt, default_res(r.src), probe)
        tag == ~HasRes(l.name, res)
        renamed == tag /\ renameOk
        basename == IF renamed THEN TaggedName(l.name, res) ELSE l.name
        moved == [l EXCEPT !.name = basename]
        src1 == IF renamed
                THEN ((srcFS \ {l}) \ LinkAt(srcFS, PathOf(moved))) \cup {moved}
                ELSE srcFS
        pa1 == Processed(r.processed_any, renamed)
        lines1 == {"NEW"}
                   \cup (IF renamed THEN {"RENAMED"} ELSE {})
                   \cup (IF tag /\ ~renameOk THEN {"Rename failed"} ELSE {})
        o1 == [o EXCEPT !.visited = @ \cup {r.i},
                        !.muts = IF renamed THEN @ + 1 ELSE @,
                        !.clean = @ /\ (~tag \/ renameOk)]
        dest_path == DestPath(dest_root(r.src), l.dir, l.season, basename)
        target == ResolvedTarget(l)
        stale == dest_path \in DOMAIN tmpFS
        tmp1 == IF TmpExists(tmpFS, dest_path, tmpAlive)
                THEN Remove(tmpFS, dest_path) ELSE tmpFS
        made == SymlinkTmp(destFS, tmp1, dest_path, target)
        next == [r EXCEPT !.i = @ + 1, !.processed_any = pa1]
        failedO == [o1 EXCEPT !.failed = @ \cup {l.id}, !.clean = FALSE,
                              !.out = lines1 \cup {"Link failed"}]
        asked0 == (IF NeedsProbe(l.tgt) THEN {"probe"} ELSE {})
                    \cup (IF tag THEN {"rename"} ELSE {})
        asked1 == asked0 \cup (IF stale THEN {"tmp1"} ELSE {})
    IN  IF AlreadyLinked(destFS, dest_path)
        THEN [ src |-> src1, dest |-> destFS, tmp |-> tmpFS, run |-> next,
               obs |-> [o1 EXCEPT !.out = lines1 \cup {"Already linked"}],
               asked |-> asked0 ]
        ELSE IF dest_path \in DOMAIN tmp1
        THEN \* os.symlink raises FileExistsError; the finally block runs
             [ src |-> src1, dest |-> destFS,
               tmp |-> IF TmpExists(tmp1, dest_path, tmpAlive2)
                       THEN Remove(tmp1, dest_path) ELSE tmp1,
               run |-> next, obs |-> failedO,
               asked |-> asked1 \cup {"tmp2"} ]
        ELSE IF ~symOk
        THEN [ src |-> src1, dest |-> destFS, tmp |-> tmp1, run |-> next,
               obs |-> failedO, asked |-> asked1 \cup {"sym"} ]
        ELSE [ src |-> src1, dest |-> made.dest, tmp |-> made.tmp,
               run |-> [r EXCEPT !.pc = "replace", !.processed_any = pa1,
                                 !.target = target, !.dest_path = dest_path],
               obs |-> [o1 EXCEPT !.out = lines1],
               asked |-> asked1 \cup {"sym"} ]

\* One link l, met at position r.i of the scan, from classification (line
\* 357) to the destination path (line 377): the publish is still to come,
\* beginning with the test of line 381.
TagLink(r, o, l, probe, renameOk) ==
    LET res == detect_resolution(l.tgt, default_res(r.src), probe)
        tag == ~HasRes(l.name, res)
        renamed == tag /\ renameOk
        basename == IF renamed THEN TaggedName(l.name, res) ELSE l.name
        moved == [l EXCEPT !.name = basename]
    IN  [ src |-> IF renamed
                  THEN ((srcFS \ {l}) \ LinkAt(srcFS, PathOf(moved)))
                         \cup {moved}
                  ELSE srcFS,
          dest |-> destFS, tmp |-> tmpFS,
          run |-> [r EXCEPT
                     !.pc = "check",
                     !.processed_any = Processed(@, renamed),
                     !.target = ResolvedTarget(l),
                     !.dest_path = DestPath(dest_root(r.src), l.dir,
                                            l.season, basename)],
          obs |-> [o EXCEPT
                     !.visited = @ \cup {r.i},
                     !.muts = IF renamed THEN @ + 1 ELSE @,
                     !.clean = @ /\ (~tag \/ renameOk),
                     !.out = {"NEW"}
                       \cup (IF renamed THEN {"RENAMED"} ELSE {})
                       \cup (IF tag /\ ~renameOk THEN {"Rename failed"}
                             ELSE {})],
          asked |-> (IF NeedsProbe(l.tgt) THEN {"probe"} ELSE {})
                      \cup (IF tag THEN {"rename"} ELSE {}) ]

\* The answers that went wrong.
Bad(probe, renameOk, tmpAlive, symOk, tmpAlive2) ==
    (IF probe = ProbeFailed THEN {"probe"} ELSE {})
      \cup (IF renameOk THEN {} ELSE {"rename"})
      \cup (IF tmpAlive THEN {} ELSE {"tmp1"})
      \cup (IF symOk THEN {} ELSE {"sym"})
      \cup (IF tmpAlive2 THEN {} ELSE {"tmp2"})

\* FilteredOut, mutated: the show filter is not applied.
FilteredOut_MovieOnly(r, path) ==
    ~r.is_tv /\ r.filter_movie # None /\ path.dir # r.filter_movie

\* Lines 310-322: the movie filter compares the parent directory of the
\* link, the show filter its grandparent; an entry of another movie or show
\* is passed over.
FilteredOut(r, path) ==
    \/ ~r.is_tv /\ r.filter_movie # None /\ path.dir # r.filter_movie
    \/ r.is_tv /\ r.filter_show # None /\ path.dir # r.filter_show

\* One turn of the loop at line 307.  stepwise: the publish of the entry
\* is left to be taken one system call at a time.
EntryAt(p, stepwise) ==
    LET r == run[p]
        o == obs[p]
    IN  /\ r.pc = "loop"
        /\ r.i <= Len(r.symlinks)
        /\ LET rec == r.symlinks[r.i]
               here == LinkAt(srcFS, rec.path)
           IN  IF FilteredOut(r, rec.path)
               THEN \* lines 313 and 322: continue
                    /\ run' = [run EXCEPT ![p].i = @ + 1]
                    /\ obs' = [obs EXCEPT ![p].out = {}]
                    /\ UNCHANGED <<srcFS, destFS, tmpFS, nRename, nClassify,
                                   faults>>
               ELSE IF EarlyStop(r.update_last_file, rec.ts, r.prev_ts)
               THEN \* line 327: break
                    /\ run' = [run EXCEPT ![p].i = Len(r.symlinks) + 1]
                    /\ obs' = [obs EXCEPT ![p].out = {"Stopping early"}]
                    /\ UNCHANGED <<srcFS, destFS, tmpFS, nRename, nClassify,
                                   faults>>
               ELSE \/ \* line 337: the link or its target is not there (the
                       \* link is gone when another pass has renamed it)
                       /\ here = {} \/ faults < MaxFaults
                       /\ faults' = IF here = {} THEN faults ELSE faults + 1
                       /\ run' = [run EXCEPT ![p].i = @ + 1]
                       /\ obs' = [obs EXCEPT ![p] =
                            [o EXCEPT !.visited = @ \cup {r.i},
                                      !.failed = @ \cup {l.id : l \in here},
                                      !.clean = FALSE,
                                      !.out = {"Broken symlink"}]]
                       /\ UNCHANGED <<srcFS, destFS, tmpFS, nRename, nClassify>>
                    \/ \* line 352: not the episode asked for
                       /\ r.is_tv /\ r.filter_episode # None
                       /\ \E l \in here : l.name.ep # r.filter_episode
                       /\ run' = [run EXCEPT ![p].i = @ + 1]
                       /\ obs' = [obs EXCEPT ![p].out = {}]
                       /\ UNCHANGED <<srcFS, destFS, tmpFS, nRename, nClassify,
                                      faults>>
                    \/ \E l \in here :
                       \E probe \in ProbeOutputs(l.tgt),
                          renameOk, tmpAlive, symOk, tmpAlive2 \in BOOLEAN :
                          LET n == IF stepwise
                                   THEN TagLink(r, o, l, probe, renameOk)
                                   ELSE ProcessLink(r, o, l, probe, renameOk,
                                                    tmpAlive, symOk, tmpAlive2)
                              bad == Bad(probe, renameOk, tmpAlive, symOk,
                                         tmpAlive2)
                          IN  /\ r.is_tv /\ r.filter_episode # None
                                   => l.name.ep = r.filter_episode
                              /\ bad \subseteq n.asked
                              /\ faults + Cardinality(bad) <= MaxFaults
                              /\ faults' = faults + Cardinality(bad)
                              /\ srcFS' = n.src
                              /\ destFS' = n.dest
                              /\ tmpFS' = n.tmp
                              /\ run' = [run EXCEPT ![p] = n.run]
                              /\ obs' = [obs EXCEPT ![p] = n.obs]
                              /\ nClassify' = Bump(nClassify, l.id)
                              /\ nRename' = IF "RENAMED" \in n.obs.out
                                            THEN Bump(nRename, l.id)
                                            ELSE nRename
        /\ UNCHANGED <<clock, wm, quiet, passes>>

\* One turn of the loop, the publish within it.
Entry(p) == EntryAt(p, FALSE)

\* os.replace(tmp, dest) and the finally block of atomic_symlink (lines
\* 210-216), then lines 387-391.
Replace(p) ==
    LET r == run[p]
        d == r.dest_path
    IN  /\ r.pc = "replace"
        /\ \E ok, tmpAlive \in BOOLEAN :
             /\ tmpAlive \/ (~ok /\ d \in DOMAIN tmpFS)
             /\ faults' = faults + (IF ok THEN 0 ELSE 1)
                                 + (IF tmpAlive THEN 0 ELSE 1)
             /\ faults' <= MaxFaults
             /\ IF ok /\ d \in DOMAIN tmpFS
                THEN /\ destFS' = Put(Remove(destFS, d), d, tmpFS[d])
                     /\ tmpFS' = Remove(tmpFS, d)
                     /\ run' = [run EXCEPT ![p] =
                          [r EXCEPT !.pc = "loop", !.i = @ + 1,
                                    !.processed_any = TRUE,
                                    !.target = NoTarget, !.dest_path = NoPath]]
                     /\ obs' = [obs EXCEPT ![p] =
                          [@ EXCEPT !.muts = @ + 1, !.out = @ \cup {"Linked"}]]
                ELSE /\ destFS' = destFS
                     /\ tmpFS' = IF TmpExists(tmpFS, d, tmpAlive)
                                 THEN Remove(tmpFS, d) ELSE tmpFS
                     /\ run' = [run EXCEPT ![p] =
                          [r EXCEPT !.pc = "loop", !.i = @ + 1,
                                    !.target = NoTarget, !.dest_path = NoPath]]
                     /\ obs' = [obs EXCEPT ![p] =
                          [@ EXCEPT !.clean = FALSE,
                                    !.failed = @ \cup {r.target.id},
                                    !.out = @ \cup {"Link failed"}]]
        /\ UNCHANGED <<clock, srcFS, wm, nRename, nClassify, quiet, passes>>

\* The pass is over: its parameters and the two timestamps stay on record,
\* its other locals are gone.  ret is what the generator returned: it has
\* no return statement, so None.
Returned(r) ==
    [IdleRun EXCEPT !.pc = "done", !.src = r.src, !.is_tv = r.is_tv,
                    !.full = r.full, !.filter_show = r.filter_show,
                    !.filter_episode = r.filter_episode,
                    !.filter_movie = r.filter_movie, !.wipe_dest = r.wipe_dest,
                    !.update_last_file = r.update_last_file,
                    !.prev_ts = r.prev_ts, !.now_ts = r.now_ts]

\* ShouldWrite, mutated: the watermark is written after every
\* pure-incremental pass.
ShouldWrite_Always(upd, processed_any) == upd

\* Line 398: the watermark is rewritten after a pure-incremental pass that
\* did some work.
ShouldWrite(upd, processed_any) == upd /\ processed_any

\* cache_last_file.write_text(str(now_ts)): written, refused with the file
\* untouched, or failed after the file was truncated.
WriteOutcomes(c, now_ts) ==
    {<<"ok", WmText(now_ts)>>, <<"failed", c>>, <<"failed", WmEmpty>>}

\* Lines 397-412: the end of the pass.
Finish(p) ==
    LET r == run[p]
    IN  /\ r.pc = "loop"
        /\ r.i > Len(r.symlinks)
        /\ IF ShouldWrite(r.update_last_file, r.processed_any)
           THEN \E w \in WriteOutcomes(wm[r.src], r.now_ts) :
                  /\ faults' = IF w[1] = "ok" THEN faults ELSE faults + 1
                  /\ faults' <= MaxFaults
                  /\ wm' = [wm EXCEPT ![r.src] = w[2]]
                  /\ obs' = [obs EXCEPT
                       ![p].wrote = w[1],
                       ![p].out = IF w[1] = "ok"
                                  THEN {"Updated timestamp"}
                                  ELSE {"Failed to update timestamp file"}]
           ELSE /\ wm' = wm
                /\ faults' = faults
                /\ obs' = [obs EXCEPT
                       ![p].out = IF r.update_last_file
                                  THEN {"No changes detected"}
                                  ELSE {"Skipped timestamp update"}]
        /\ run' = [run EXCEPT ![p] = Returned(r)]
        /\ UNCHANGED <<clock, srcFS, destFS, tmpFS, nRename, nClassify,
                       quiet, passes>>

\* The process is killed between the creation of the temporary link and
\* its rename: nothing more runs, not even the finally block of
\* atomic_symlink.
Interrupt(p) ==
    /\ run[p].pc = "replace"
    /\ faults < MaxFaults
    /\ faults' = faults + 1
    /\ run' = [run EXCEPT ![p] = Returned(run[p])]
    /\ obs' = [obs EXCEPT ![p].interrupted = TRUE]
    /\ UNCHANGED <<clock, srcFS, destFS, tmpFS, wm, nRename, nClassify,
                   quiet, passes>>

---------------------------------------------------------------------------
\* Passes run one after the other, driven by the scheduler.

\* The passes the entry points start: incremental, full, and the refresh of
\* one movie, which wipes its destination folder on the 4K side.
PassKinds ==
    { sync_movies_4k(FALSE, None, FALSE), sync_movies_1080(FALSE, None),
      sync_movies_4k(TRUE, None, FALSE), sync_movies_1080(TRUE, None),
      sync_movies_4k(FALSE, "A", TRUE), sync_movies_1080(FALSE, "A"),
      sync_movies_4k(FALSE, "A", FALSE) }

Next ==
    /\ \/ Tick
       \/ \E s \in MovieSources, d \in Movies, t \in TargetKinds : AddLink(s, d, t)
       \/ \E a \in PassKinds : StartPass("scheduler", a)
       \/ Entry("scheduler")
       \/ Replace("scheduler")
       \/ Finish("scheduler")
       \/ Interrupt("scheduler")
    /\ UNCHANGED drivers

Spec == Init /\ [][Next]_vars

---------------------------------------------------------------------------
\* Properties.

\* The pass of p ran to its end (it was not killed).
Completed(p) == run[p].pc = "done" /\ ~obs[p].interrupted

\* The pass of p has left the loop over the scan and is about to end.
LoopDone(p) == run[p].pc = "loop" /\ run[p].i > Len(run[p].symlinks)

\* A pure-incremental pass: not full, no filter.
PureInc(p) == ~run[p].full /\ run[p].filter_movie = None

\* The watermark of the source of p's pass, in seconds, now and when the
\* pass began.
WmNow(p) == ReadWm(wm[run[p].src])

WmBefore(p) == ReadWm(obs[p].wm0)

\* The watermark file holds what it held when the pass began (touch made an
\* absent file an empty one, unless touch itself raised).
WmFileKept(p) ==
    wm[run[p].src] = IF run[p].pc = "raised" THEN obs[p].wm0
                     ELSE Touch(obs[p].wm0)

\* C1: a pure-incremental pass rewrites the watermark file only if it
\* renamed or published at least one entry; a pass without any mutation
\* leaves the content of the file as it was.
C1_WriteOnlyAfterWork ==
    \A p \in Procs :
      Completed(p) /\ PureInc(p) =>
        /\ obs[p].wrote # "no" => obs[p].muts > 0
        /\ obs[p].muts = 0 => WmFileKept(p)

\* A pure-incremental pass met an entry newer than a non-zero watermark,
\* failed on it, changed nothing and left the watermark as it was.
C1_Witness ==
    \E p \in Procs :
      /\ Completed(p) /\ PureInc(p)
      /\ obs[p].muts = 0 /\ obs[p].failed # {}
      /\ obs[p].wm0.kind = "text" /\ wm[run[p].src] = obs[p].wm0

C3_Claimed ==
    \A p \in Procs :
      Completed(p) /\ PureInc(p) =>
        /\ WmNow(p) >= WmBefore(p)
        /\ WmNow(p) = WmBefore(p) <=> obs[p].muts = 0

\* C3, amended: a pure-incremental pass without a mutation leaves the
\* watermark as it was; a pass whose watermark write succeeded performed a
\* mutation and set the watermark to the whole second in which it began,
\* which is greater than or equal to the watermark before it (equal when
\* the pass began within the second the watermark names).
C3_Amended ==
    \A p \in Procs :
      Completed(p) /\ PureInc(p) =>
        /\ obs[p].muts = 0 => WmNow(p) = WmBefore(p) /\ obs[p].wrote = "no"
        /\ obs[p].wrote = "ok" =>
             /\ obs[p].muts > 0
             /\ WmNow(p) = run[p].now_ts
             /\ WmNow(p) >= WmBefore(p)
        /\ obs[p].wrote = "failed" => WmNow(p) \in {WmBefore(p), 0}

\* A pass that published something and wrote the watermark left it equal to
\* the watermark before: it began within the same second.
C3_Witness ==
    \E p \in Procs :
      /\ Completed(p) /\ PureInc(p)
      /\ obs[p].muts > 0 /\ obs[p].wrote = "ok"
      /\ obs[p].wm0.kind = "text" /\ WmNow(p) = WmBefore(p)

\* C4, as claimed: an entry that a pure-incremental pass met broken or
\* failed to publish is still newer than the persisted watermark when the
\* pass ends, also when the pass tagged or published something.
C4_Claimed ==
    \A p \in Procs :
      Completed(p) /\ PureInc(p) =>
        \A l \in srcFS :
          l.id \in obs[p].failed => l.mtime > WmNow(p) * TicksPerSec

C6_Claimed ==
    \A p \in Procs :
      Completed(p) /\ run[p].full /\ obs[p].repeat => obs[p].muts = 0

\* C7, as claimed: no physical link is renamed more than once.
C7_Claimed == \A k \in 1..MaxLinks : nRename[k] <= 1

\* C8, as claimed: the classifier is invoked at most once per physical
\* link.
C8_Claimed == \A k \in 1..MaxLinks : nClassify[k] <= 1

\* Process p starts a pass in this step: its loop begins, or the touch of
\* the watermark raised.
Starting(p) ==
    /\ passes' = passes + 1
    /\ ~Active(p) /\ run'[p].pc \in {"loop", "raised"}

\* A pass that starts by wiping the destination folder of d.
Wiping(d) ==
    \E p \in Procs :
      /\ Starting(p)
      /\ WipeTarget(run'[p]) = d.dir /\ dest_root(run'[p].src) = d.root

\* C9: without a wipe, a destination entry that exists is never removed,
\* replaced or retargeted, and no publish is begun on a path that exists.
C9_FirstWriterWins ==
    /\ [][\A d \in DOMAIN destFS :
            \/ Wiping(d)
            \/ d \in DOMAIN destFS' /\ destFS'[d] = destFS[d]]_vars
    /\ [](\A p \in Procs :
            run[p].pc = "replace" => run[p].dest_path \notin DOMAIN destFS)

\* An entry of one source was reported already linked: its destination
\* path holds the link another source published.
C9_Witness ==
    \E p \in Procs :
      /\ "Already linked" \in obs[p].out
      /\ \E l \in srcFS :
           /\ l.src = run[p].src
           /\ DestPath(dest_root(l.src), l.dir, l.season, l.name) \in DOMAIN destFS
           /\ destFS[DestPath(dest_root(l.src), l.dir, l.season, l.name)].id # l.id

\* C10: a destination path is absent or holds a complete link to the
\* resolved target of a source link, at every point of a publish and after
\* a kill between the creation of the temporary link and its rename.
C10_AbsentOrComplete ==
    /\ \A d \in DOMAIN destFS :
         destFS[d].to = "file" /\ destFS[d].id \in 1..LinksMade
    /\ \A p \in Procs :
         run[p].pc = "replace" =>
           \/ run[p].dest_path \notin DOMAIN destFS
           \/ destFS[run[p].dest_path] = run[p].target

\* A pass was killed with the temporary link made and not yet renamed: the
\* temporary link is there, the destination path is absent.
C10_Witness ==
    \E p \in Procs :
      /\ obs[p].interrupted
      /\ \E d \in DOMAIN tmpFS : d \notin DOMAIN destFS

\* C11, as claimed: the filename of every destination entry carries exactly
\* one resolution tag.
C11_Claimed == \A d \in DOMAIN destFS : Len(d.name.tags) = 1

\* C12, as claimed: an entry whose tagging rename failed is skipped: no
\* publish is begun for it and nothing is linked for it.
C12_Claimed ==
    \A p \in Procs :
      "Rename failed" \in obs[p].out =>
        run[p].pc # "replace" /\ "Linked" \notin obs[p].out

---------------------------------------------------------------------------
\* Filtered and wiping passes over both libraries.

\* The passes with a movie, show or episode filter, with and without
\* wipe_dest, the unfiltered passes with wipe_dest, and the full passes
\* that fill the destination roots.  The engine is called directly for the
\* wiping pass of a show: no wrapper of the TV sources takes wipe_dest.
ScopeKinds ==
    { sync_movies_4k(FALSE, "A", TRUE), sync_movies_4k(FALSE, "A", FALSE),
      sync_movies_1080(FALSE, "A"),
      sync_tv_4k(FALSE, "A", None), sync_tv_4k(FALSE, "A", "S01E01"),
      sync_tv_1080(FALSE, "A", None),
      EngineArgs("tv_4k", FALSE, "A", None, None, TRUE),
      sync_movies_4k(FALSE, None, TRUE), sync_movies_4k(TRUE, None, TRUE),
      sync_movies_4k(TRUE, None, FALSE), sync_tv_4k(TRUE, None, None) }

ScopeNext ==
    /\ \/ \E s \in MovieSources, d \in Movies, t \in TargetKinds : AddLink(s, d, t)
       \/ \E s \in TvSources, d \in Movies, e \in Episodes, t \in TargetKinds :
            AddNamedLink(s, d, FileName("m", {}, e), t)
       \/ \E a \in ScopeKinds : StartPass("request", a)
       \/ Entry("request")
       \/ Replace("request")
       \/ Finish("request")
    /\ UNCHANGED drivers

SpecScope == Init /\ [][ScopeNext]_vars

\* The show or movie a pass is filtered to, None for an unfiltered pass.
FilterOf(r) == IF r.is_tv THEN r.filter_show ELSE r.filter_movie

\* The pass that takes the step: the running one, or the one it starts.
Stepping(p) == IF Active(p) THEN run[p] ELSE run'[p]

\* C13: a step of a pass filtered to show or movie F changes, removes or
\* adds no source link and no destination entry outside F, nor any of
\* another source or destination root.
C13_FilterScoping ==
    [][\A p \in Procs :
         (Active(p) \/ Starting(p)) /\ FilterOf(Stepping(p)) # None =>
           LET r == Stepping(p)
               inS(l) == l.src = r.src /\ l.dir = FilterOf(r)
               inD(d) == d.root = dest_root(r.src) /\ d.dir = FilterOf(r)
           IN  /\ {l \in srcFS : ~inS(l)} = {l \in srcFS' : ~inS(l)}
               /\ {d \in DOMAIN destFS : ~inD(d)}
                    = {d \in DOMAIN destFS' : ~inD(d)}
               /\ \A d \in DOMAIN destFS : ~inD(d) => destFS'[d] = destFS[d]]_vars

\* A pass filtered to one show tagged and published an entry of that show
\* while an untagged link of another show of the same source was there.
C13_Witness ==
    \E p \in Procs :
      /\ Completed(p) /\ run[p].is_tv /\ run[p].filter_show # None
      /\ obs[p].muts > 1
      /\ \E l \in srcFS : /\ l.src = run[p].src
                           /\ l.dir # run[p].filter_show
                           /\ l.name.tags = << >>

\* C14: a destination entry goes away only in the wipe of a pass filtered
\* to the show or movie of that entry, under the destination root of the
\* pass; a pass started with wipe_dest and no such filter removes nothing.
C14_WipeScoping ==
    [][/\ \A d \in DOMAIN destFS : d \in DOMAIN destFS' \/ Wiping(d)
       /\ \A p \in Procs :
            /\ Starting(p)
            /\ run'[p].wipe_dest /\ FilterOf(run'[p]) = None
            => DOMAIN destFS' = DOMAIN destFS /\ tmpFS' = tmpFS]_vars

\* The wipe of a pass removed the entries of its show or movie and an
\* entry of another one under the same root is still there.
C14_Witness ==
    \E p \in Procs :
      /\ Active(p) /\ obs[p].removed > 0
      /\ \E d \in DOMAIN destFS :
           d.root = dest_root(run[p].src) /\ d.dir # WipeTarget(run[p])

---------------------------------------------------------------------------
\* The request handlers of app.py and sync_all of media_sync.py.

\* The keyword parameters in the signature of each function a handler
\* calls.
Params(fn) ==
    CASE fn = "sync_movies_4k" -> {"full", "movie_filter", "wipe_dest"}
      [] fn = "sync_movies_1080" -> {"full", "movie_filter"}
      [] fn = "sync_tv_4k" -> {"full", "show_filter", "episode_filter"}
      [] fn = "sync_tv_1080" -> {"full", "show_filter", "episode_filter"}
      [] fn = "sync_all" -> {}

\* The defaults of the keyword parameters.
Defaults ==
    [ full |-> FALSE, show_filter |-> None, episode_filter |-> None,
      movie_filter |-> None, wipe_dest |-> FALSE ]

\* A call fn(**kw): kw the keywords given, v their values over the
\* defaults, iter whether the caller iterates the generator it gets back.
Call(fn, kw, v, iter) == [fn |-> fn, kw |-> kw, v |-> v, iter |-> iter]

\* The generator a wrapper returns for an accepted call.
Bind(c) ==
    CASE c.fn = "sync_movies_4k" ->
           sync_movies_4k(c.v.full, c.v.movie_filter, c.v.wipe_dest)
      [] c.fn = "sync_movies_1080" ->
           sync_movies_1080(c.v.full, c.v.movie_filter)
      [] c.fn = "sync_tv_4k" ->
           sync_tv_4k(c.v.full, c.v.show_filter, c.v.episode_filter)
      [] c.fn = "sync_tv_1080" ->
           sync_tv_1080(c.v.full, c.v.show_filter, c.v.episode_filter)

\* media_sync.sync_all (lines 508-515): the four wrappers are called in
\* order and what they return is dropped.
sync_all ==
    << Call("sync_movies_4k", {}, Defaults, FALSE),
       Call("sync_movies_1080", {}, Defaults, FALSE),
       Call("sync_tv_4k", {}, Defaults, FALSE),
       Call("sync_tv_1080", {}, Defaults, FALSE) >>

Handlers ==
    {"refresh_show", "refresh_movie", "refresh_all", "refresh_movies_inc",
     "sync_all"}

\* The calls in the body of a handler posted with name x (app.py lines
\* 139-190).
Plan(h, x) ==
    CASE h = "refresh_show" ->
           << Call("sync_tv_4k", {"show_filter", "wipe_dest"},
                   [Defaults EXCEPT !.show_filter = x, !.wipe_dest = TRUE], TRUE),
              Call("sync_tv_1080", {"show_filter"},
                   [Defaults EXCEPT !.show_filter = x], TRUE) >>
      [] h = "refresh_movie" ->
           << Call("sync_movies_4k", {"movie_filter", "wipe_dest"},
                   [Defaults EXCEPT !.movie_filter = x, !.wipe_dest = TRUE], TRUE),
              Call("sync_movies_1080", {"movie_filter"},
                   [Defaults EXCEPT !.movie_filter = x], TRUE) >>
      [] h = "refresh_all" ->
           << Call("sync_all", {"full"}, [Defaults EXCEPT !.full = TRUE], TRUE) >>
      [] h = "refresh_movies_inc" ->
           << Call("sync_movies_4k", {}, Defaults, TRUE),
              Call("sync_movies_1080", {}, Defaults, TRUE) >>
      [] h = "sync_all" -> sync_all

\* The destination root a named refresh is about.
RootOf(h) == IF h = "refresh_show" THEN "shows" ELSE "movies"

Named(h) == h \in {"refresh_show", "refresh_movie"}

\* A request arrives.
ReqStart(h, x) ==
    /\ req.pc = "idle"
    /\ \A q \in Procs : ~Active(q)
    /\ Named(h) <=> x # None
    /\ req' = [ pc |-> "run", handler |-> h, name |-> x, todo |-> Plan(h, x),
                kept |-> {d \in DOMAIN destFS :
                            Named(h) /\ d.root = RootOf(h) /\ d.dir = x},
                result |-> None ]
    /\ UNCHANGED engine

\* Passes a behaviour with a request may start: one more than MaxPasses, for
\* the two passes of a refresh after a pass that filled the destination.
RequestBudget == MaxPasses + 1

\* The handler makes its next call.  A keyword the function does not take
\* raises TypeError and ends the response; a generator that is not iterated
\* never runs; an iterated one runs as a pass of the engine.
ReqCall ==
    /\ req.pc = "run"
    /\ req.todo # << >>
    /\ run["request"].pc \in {"idle", "done"}
    /\ LET c == Head(req.todo)
       IN  IF ~(c.kw \subseteq Params(c.fn))
           THEN /\ req' = [req EXCEPT !.pc = "error", !.todo = << >>]
                /\ UNCHANGED engine
           ELSE IF c.fn = "sync_all"
           THEN /\ req' = [req EXCEPT !.todo = sync_all \o Tail(@)]
                /\ UNCHANGED engine
           ELSE IF ~c.iter
           THEN /\ req' = [req EXCEPT !.todo = Tail(@)]
                /\ UNCHANGED engine
           ELSE /\ StartPassWithin("request", Bind(c), RequestBudget)
                /\ req' = [req EXCEPT !.todo = Tail(@),
                                      !.kept = @ \cap DOMAIN destFS']

\* An exception left the pass: the response ends there.
ReqRaised ==
    /\ req.pc = "run"
    /\ run["request"].pc = "raised"
    /\ req' = [req EXCEPT !.pc = "error", !.todo = << >>]
    /\ UNCHANGED engine

\* The handler has made all its calls: the response is complete.
ReqEnd ==
    /\ req.pc = "run"
    /\ req.todo = << >>
    /\ run["request"].pc \in {"idle", "done"}
    /\ req' = [req EXCEPT !.pc = "done"]
    /\ UNCHANGED engine

\* The full passes that fill the destination roots before a request.
FillKinds == { sync_movies_4k(TRUE, None, FALSE), sync_tv_4k(TRUE, None, None) }

RefreshNext ==
    \/ /\ \/ \E s \in {"movies_4k", "movies_1080"}, d \in Movies, t \in TargetKinds :
               AddLink(s, d, t)
          \/ \E d \in Movies, t \in TargetKinds :
               AddNamedLink("tv_4k", d, FileName("m", {}, "S01E01"), t)
          \/ /\ req.pc = "idle"
             /\ \E a \in FillKinds : StartPass("scheduler", a)
          \/ Entry("scheduler")
          \/ Replace("scheduler")
          \/ Finish("scheduler")
          \/ Entry("request")
          \/ Replace("request")
          \/ Finish("request")
       /\ UNCHANGED drivers
    \/ /\ \/ \E h \in Handlers, x \in Movies \cup {None} : ReqStart(h, x)
          \/ ReqCall
          \/ ReqRaised
          \/ ReqEnd
       /\ UNCHANGED <<sched, watch, exp, call>>

SpecRefresh == Init /\ [][RefreshNext]_vars

\* C15, as claimed: when a refresh of show or movie X has ended, no
\* destination entry that was under X before the refresh is still there.
C15_Claimed ==
    Named(req.handler) /\ req.pc \in {"done", "error"} => req.kept = {}

\* The text of a boolean, as against None.
BoolText(b) == IF b THEN "True" ELSE "False"

\* C16, as claimed: a pass returns True exactly when it tagged or published
\* an entry, and sync_all runs the passes of its sources in order, through
\* the last one, and returns a boolean.
C16_Claimed ==
    /\ \A p \in Procs :
         Completed(p) => run[p].ret = BoolText(obs[p].muts > 0)
    /\ req.handler = "sync_all" /\ req.pc = "done" =>
         /\ run["request"].pc = "done" /\ run["request"].src = "tv_1080"
         /\ req.result \in {BoolText(TRUE), BoolText(FALSE)}

---------------------------------------------------------------------------
\* The two incremental passes of the movie library, run in both orders from
\* the same trees.

\* The order of the merged run (refresh_movies_inc, sync_all), and the
\* other one.
Orders ==
    << sync_movies_4k(FALSE, None, FALSE), sync_movies_1080(FALSE, None),
       sync_movies_1080(FALSE, None), sync_movies_4k(FALSE, None, FALSE) >>

\* The passes of one experiment.
CommutePasses == Len(Orders)

\* The experiment begins: the trees and the watermarks are noted.
ExpBegin ==
    /\ exp.step = 0
    /\ \A q \in Procs : ~Active(q)
    /\ exp' = [ step |-> 1, snapSrc |-> srcFS, snapDest |-> destFS,
                snapTmp |-> tmpFS, snapWm |-> wm, first |-> << >> ]
    /\ UNCHANGED engine

\* The next pass of the experiment is started once the one before it is
\* over: passes 1 and 2 in the first order, 3 and 4 in the other.
ExpPass ==
    LET k == IF exp.step < 3 THEN exp.step ELSE exp.step - 1
    IN  /\ exp.step \in {1, 2, 4, 5}
        /\ run["request"].pc \in {"idle", "done", "raised"}
        /\ StartPassWithin("request", Orders[k], CommutePasses)
        /\ exp' = [exp EXCEPT !.step = @ + 1]

\* The first order is over: its destination tree is noted and the trees
\* and watermarks are put back as they were when the experiment began.
ExpRestore ==
    /\ exp.step = 3
    /\ run["request"].pc \in {"done", "raised"}
    /\ exp' = [exp EXCEPT !.step = 4, !.first = destFS]
    /\ srcFS' = exp.snapSrc
    /\ destFS' = exp.snapDest
    /\ tmpFS' = exp.snapTmp
    /\ wm' = exp.snapWm
    /\ UNCHANGED <<clock, run, obs, nRename, nClassify, quiet, passes, faults>>

CommuteNext ==
    \/ /\ \/ exp.step = 0 /\ Tick
          \/ /\ exp.step = 0
             /\ \E s \in MovieSources, d \in Movies, t \in TargetKinds :
                  AddLink(s, d, t)
          \/ Entry("request")
          \/ Replace("request")
          \/ Finish("request")
       /\ UNCHANGED drivers
    \/ /\ \/ ExpBegin
          \/ ExpPass
          \/ ExpRestore
       /\ UNCHANGED <<req, sched, watch, call>>

SpecCommute == Init /\ [][CommuteNext]_vars

\* C17, as claimed: when no operation failed, the incremental passes of the
\* two movie sources leave the same destination tree in either order.
C17_Claimed ==
    exp.step = 6 /\ run["request"].pc = "done" /\ faults = 0 =>
      destFS = exp.first

---------------------------------------------------------------------------
\* The scheduler loop of auto_runner.py and the watcher loop of
\* media_watcher.py.

\* Iterations each loop starts while it is not asked to stop.
MaxRounds == 2

\* The passes of the scheduler's iterations: four an iteration.
LoopBudget == 4 * MaxRounds

\* The body of the scheduler's try block: four passes, each drained.
LoopBody ==
    << sync_tv_4k(FALSE, None, None), sync_tv_1080(FALSE, None, None),
       sync_movies_4k(FALSE, None, FALSE), sync_movies_1080(FALSE, None) >>

\* The condition of `while RUNNING`.
LoopCondition(RUNNING) == RUNNING

\* A process runs one of the two loops: app.py starts loop() in a thread
\* of its own process, and watcher_loop() runs where something else calls
\* it.
StartLoop ==
    /\ sched.pc = "off"
    /\ watch.pc = "off"
    /\ sched' = [sched EXCEPT !.pc = "check"]
    /\ UNCHANGED engine

\* `while RUNNING`: the flag is read; the loop returns or starts an
\* iteration.
SchedCheck ==
    /\ sched.pc = "check"
    /\ IF LoopCondition(sched.RUNNING)
       THEN /\ sched.rounds < MaxRounds
            /\ sched' = [sched EXCEPT !.pc = "iter", !.todo = LoopBody,
                                      !.rounds = @ + 1]
       ELSE sched' = [sched EXCEPT !.pc = "exited"]
    /\ UNCHANGED engine

\* drain(media_sync.sync_...()): the next pass of the try block is created
\* and iterated, once the one before it has been drained.
SchedCall ==
    /\ sched.pc = "iter"
    /\ sched.todo # << >>
    /\ Len(sched.todo) = Len(LoopBody) \/ run["scheduler"].pc = "done"
    /\ StartPassWithin("scheduler", Head(sched.todo), LoopBudget)
    /\ sched' = [sched EXCEPT !.todo = Tail(@)]

\* An exception left the pass being drained: `except Exception: pass`
\* abandons what is left of the try block.
SchedRaised ==
    /\ sched.pc = "iter"
    /\ Len(sched.todo) < Len(LoopBody)
    /\ run["scheduler"].pc = "raised"
    /\ sched' = [sched EXCEPT !.pc = "sleep", !.todo = << >>]
    /\ UNCHANGED engine

\* The four passes are drained: the try block is left.
SchedIterEnd ==
    /\ sched.pc = "iter"
    /\ sched.todo = << >>
    /\ run["scheduler"].pc = "done"
    /\ sched' = [sched EXCEPT !.pc = "sleep"]
    /\ UNCHANGED engine

\* time.sleep(SLEEP_SECONDS) returns.
SchedWake ==
    /\ sched.pc = "sleep"
    /\ sched' = [sched EXCEPT !.pc = "check"]
    /\ UNCHANGED engine

\* shutdown(signum, frame), on SIGTERM or SIGINT: the flag is cleared.
\* at notes where the loop was.
shutdown ==
    /\ sched.RUNNING
    /\ sched.pc \notin {"off", "exited"}
    /\ sched' = [sched EXCEPT !.RUNNING = FALSE, !.at = sched.pc]
    /\ UNCHANGED engine

SchedStep ==
    \/ /\ \/ StartLoop
          \/ SchedCheck
          \/ SchedCall
          \/ SchedRaised
          \/ SchedIterEnd
          \/ SchedWake
       /\ UNCHANGED <<req, watch, exp, call>>
    \/ /\ \/ Entry("scheduler")
          \/ Replace("scheduler")
          \/ Finish("scheduler")
       /\ UNCHANGED drivers

\* The configured roots: SRC_* of config.py and WATCH_PATHS of the watcher.
SRC ==
    [ s \in Sources |->
        CASE s = "movies_4k" -> "/mnt/debrid/riven_symlinks/movies"
          [] s = "movies_1080" -> "/mnt/debrid_1080/riven_symlinks/movies"
          [] s = "tv_4k" -> "/mnt/debrid/riven_symlinks/shows"
          [] s = "tv_1080" -> "/mnt/debrid_1080/riven_symlinks/shows" ]

WATCH_PATHS ==
    [ k \in Sources |->
        CASE k = "tv_4k" -> "/mnt/debrid/riven_symlinks/tv_4k"
          [] k = "tv_1080" -> "/mnt/debrid_1080/riven_symlinks/tv"
          [] k = "movies_4k" -> "/mnt/debrid/riven_symlinks/movies"
          [] k = "movies_1080" -> "/mnt/debrid_1080/riven_symlinks/movies" ]

\* WATCH_PATHS.items(): the keys in the order of the dict.
WatchKeys == << "tv_4k", "tv_1080", "movies_4k", "movies_1080" >>

\* path.exists(): the directories of the source side are the four source
\* roots.
PathExists(path) == \E s \in Sources : SRC[s] = path

\* fingerprint(path): the digest of the names and modification times of
\* what lies under path, in sorted order.  A directory's modification time
\* changes with each link made in it, which the link's id stands for; the
\* digest is taken to be free of collisions.
fingerprint(fs, path) ==
    { [dir |-> l.dir, name |-> l.name, made |-> l.id] :
        l \in {x \in fs : SRC[x.src] = path} }

\* watcher_loop() is entered: nothing is recorded yet.
StartWatcher ==
    /\ watch.pc = "off"
    /\ sched.pc = "off"
    /\ watch' = [watch EXCEPT !.pc = "check"]
    /\ UNCHANGED engine

\* `while not _stop_event.is_set()`: the event is read; the loop returns
\* or starts a poll.
WatchCheck ==
    /\ watch.pc = "check"
    /\ IF watch.stop
       THEN watch' = [watch EXCEPT !.pc = "exited"]
       ELSE /\ watch.rounds < MaxRounds
            /\ watch' = [watch EXCEPT !.pc = "keys", !.keys = WatchKeys,
                                      !.called = {}, !.rounds = @ + 1]
    /\ UNCHANGED engine

\* One turn of the for loop.  A root that does not exist is passed over.
\* path.exists() and the stat() of fingerprint raise on an OSError other
\* than a missing file, and nothing in watcher_loop catches it: the loop is
\* over.  On a new fingerprint the wrapper is called and what it returns is
\* dropped: it is a generator that nothing iterates, so no statement of the
\* pass runs.
WatchKey ==
    /\ watch.pc = "keys"
    /\ watch.keys # << >>
    /\ LET key == Head(watch.keys)
           path == WATCH_PATHS[key]
           fp == fingerprint(srcFS, path)
       IN  \/ /\ ~PathExists(path)
              /\ watch' = [watch EXCEPT !.keys = Tail(@)]
              /\ UNCHANGED engine
           \/ /\ PathExists(path)
              /\ faults < MaxFaults
              /\ faults' = faults + 1
              /\ watch' = [watch EXCEPT !.pc = "crashed", !.keys = << >>]
              /\ UNCHANGED <<clock, srcFS, destFS, tmpFS, wm, run, obs,
                             nRename, nClassify, quiet, passes>>
           \/ /\ PathExists(path)
              /\ watch' = IF watch.last_fp[key] # <<fp>>
                          THEN [watch EXCEPT !.keys = Tail(@),
                                             !.last_fp[key] = <<fp>>,
                                             !.called = @ \cup {key}]
                          ELSE [watch EXCEPT !.keys = Tail(@)]
              /\ UNCHANGED engine

\* The for loop is over: _stop_event.wait(POLL_INTERVAL) begins.
WatchWait ==
    /\ watch.pc = "keys"
    /\ watch.keys = << >>
    /\ watch' = [watch EXCEPT !.pc = "wait"]
    /\ UNCHANGED engine

\* The wait returns: the interval has passed or the event was set.
WatchWake ==
    /\ watch.pc = "wait"
    /\ watch' = [watch EXCEPT !.pc = "check"]
    /\ UNCHANGED engine

\* stop(): the event is set.  at notes where the loop was.
stop ==
    /\ ~watch.stop
    /\ watch.pc \notin {"off", "exited", "crashed"}
    /\ watch' = [watch EXCEPT !.stop = TRUE, !.at = watch.pc]
    /\ UNCHANGED engine

WatchStep ==
    /\ \/ StartWatcher
       \/ WatchCheck
       \/ WatchKey
       \/ WatchWait
       \/ WatchWake
    /\ UNCHANGED <<req, sched, exp, call>>

LoopsNext ==
    \/ SchedStep
    \/ WatchStep
    \/ shutdown /\ UNCHANGED <<req, watch, exp, call>>
    \/ stop /\ UNCHANGED <<req, sched, exp, call>>
    \/ /\ \E s \in MovieSources, d \in Movies, t \in TargetKinds :
            AddLink(s, d, t)
       /\ UNCHANGED drivers

SpecLoops == Init /\ [][LoopsNext]_vars

\* C18, as claimed: at the end of a poll, a root whose fingerprint had
\* changed has had its pass run to completion by the watcher.
C18_Claimed ==
    watch.pc = "wait" /\ watch.called # {} =>
      /\ run["watcher"].pc = "done"
      /\ run["watcher"].src \in watch.called

\* C19, as claimed: neither loop ends because of a failure; a loop that
\* is over had been asked to stop.
C19_Claimed ==
    /\ sched.pc = "exited" => ~sched.RUNNING
    /\ watch.pc # "crashed"
    /\ watch.pc = "exited" => watch.stop

\* The loops under their scheduling: the thread of a loop that can take a
\* step takes it (a sleep and a wait return, a pass step ends: ffprobe runs
\* under a timeout).
LiveLoops == SpecLoops /\ WF_vars(SchedStep) /\ WF_vars(WatchStep)

\* An iteration of the scheduler ends with its try block: drained to the
\* end, or left through the except clause.
SchedIterCompletes ==
    sched.pc = "iter" /\ sched'.pc # "iter" =>
      /\ sched'.pc = "sleep"
      /\ \/ sched.todo = << >> /\ run["scheduler"].pc = "done"
         \/ run["scheduler"].pc = "raised"

\* A poll of the watcher ends with its for loop, every key seen.
WatchIterCompletes ==
    watch.pc = "keys" /\ watch'.pc # "keys" =>
      watch'.pc = "wait" /\ watch.keys = << >>

\* C20, as claimed: once a stop is requested each loop terminates by
\* returning; the iteration in progress runs to its end; an iteration
\* starts only where the stop flag was read as not set.
C20_Claimed ==
    /\ ~sched.RUNNING ~> sched.pc = "exited"
    /\ watch.stop ~> watch.pc = "exited"
    /\ [][ /\ ~sched.RUNNING => SchedIterCompletes
           /\ watch.stop => WatchIterCompletes
           /\ sched'.rounds > sched.rounds => sched.RUNNING
           /\ watch'.rounds > watch.rounds => ~watch.stop
           /\ sched'.pc = "exited" /\ sched.pc # "exited" => sched.pc = "check"
           /\ watch'.pc = "exited" /\ watch.pc # "exited" => watch.pc = "check"
         ]_vars

---------------------------------------------------------------------------
\* detect_resolution taken by itself, over target files of every kind.

\* Tokens a target's file name may contain, and tokens its folder's name
\* may contain.
FnameTokens == {"2160", "uhd", "1080", "avc", "hdr"}

ParentTokens == {"4k", "uhd", "1080"}

\* Widths ffprobe reports: 720p, 1080p and 2160p material.
ProbeWidths == {1280, 1920, 3840}

\* The calls of detect_resolution(target_path, default_res), with what
\* ffprobe would answer.
ClassifyCalls ==
    { c \in { [ pc |-> "in", t |-> [fname |-> f, parent |-> d, width |-> w],
                dflt |-> default_res(s), probe |-> o, res |-> None ] :
                f \in SUBSET FnameTokens, d \in SUBSET ParentTokens,
                w \in ProbeWidths, s \in {"movies_4k", "movies_1080"},
                o \in {ProbeFailed} \cup ProbeWidths } :
        c.probe \in ProbeOutputs(c.t) }

\* The call returns.
Classify ==
    /\ call.pc = "in"
    /\ call' = [call EXCEPT !.pc = "out",
                            !.res = detect_resolution(call.t, call.dflt,
                                                      call.probe)]
    /\ UNCHANGED <<engine, req, sched, watch, exp>>

\* A call of detect_resolution about to be made, the trees as constructed.
ClassifyInit ==
    /\ InitTrees
    /\ call \in ClassifyCalls

SpecClassify == ClassifyInit /\ [][Classify]_vars

\* C21, as claimed: the label is that of the first tier that matches, in
\* the order file name, quality tags, folder, probe, default, the folder
\* tier testing the folder's name as the first tier tests the file name
\* (2160, 4k or uhd for 2160p, 1080 for 1080p).
C21_Claimed ==
    call.pc = "out" =>
      LET t == call.t
          tiers == << _detect_filename_res(t.fname),
                      _detect_keyword_res(t.fname),
                      _detect_filename_res(t.parent),
                      _probe_resolution(call.probe),
                      call.dflt >>
          first == CHOOSE k \in 1..5 :
                     /\ tiers[k] # None
                     /\ \A j \in 1..(k - 1) : tiers[j] = None
      IN  call.res = tiers[first]

---------------------------------------------------------------------------
\* Publishing where an earlier publish was cut short.

\* The temporary link an interrupted publish left: it points at the file
\* it was made for, or at one that has since gone.
StaleTmps == { [to |-> "file", id |-> 0], [to |-> "gone", id |-> 0] }

\* A publish of an earlier run was killed between os.symlink and
\* os.replace: its temporary link lies beside the destination path of d.
LeaveTmp(d, v) ==
    /\ passes = 0
    /\ tmpFS = << >>
    /\ tmpFS' = DestPath("movies", d, None,
                         TaggedName(LinkName("m"), "1080p")) :> v
    /\ UNCHANGED <<clock, srcFS, destFS, wm, run, obs, nRename, nClassify,
                   quiet, passes, faults>>

PublishKinds ==
    { sync_movies_4k(FALSE, None, FALSE), sync_movies_1080(FALSE, None),
      sync_movies_1080(TRUE, None) }

PublishNext ==
    /\ \/ \E d \in Movies, v \in StaleTmps : LeaveTmp(d, v)
       \/ \E s \in MovieSources, d \in Movies, t \in TargetKinds : AddLink(s, d, t)
       \/ \E a \in PublishKinds : StartPass("scheduler", a)
       \/ Entry("scheduler")
       \/ Replace("scheduler")
       \/ Finish("scheduler")
    /\ UNCHANGED drivers

SpecPublish == Init /\ [][PublishNext]_vars

\* The destination paths whose publish by p fails in this step.
FailedPaths(p) ==
    IF run[p].pc = "replace"
    THEN {run[p].dest_path}
    ELSE { DestPath(dest_root(run[p].src), l.dir, l.season, l.name) :
             l \in {x \in srcFS' : x.id \in obs'[p].failed \ obs[p].failed} }

\* C22, as claimed: when a publish has failed, neither the temporary
\* sibling of its destination path nor the destination path exists.
C22_Claimed ==
    [][\A p \in Procs :
         "Link failed" \in obs'[p].out /\ obs'[p] # obs[p] =>
           \A d \in FailedPaths(p) :
             d \notin DOMAIN tmpFS' /\ d \notin DOMAIN destFS']_vars

---------------------------------------------------------------------------
\* TV passes filtered to one episode.

\* Episode codes as release names also write them.
LowerEpisodes == {"s01e01", "s01e02"}

\* What the pattern [Ss]\d{2}[Ee]\d{2} finds in a basename: a code in
\* either case, or nothing.
EpTokens == Episodes \cup LowerEpisodes \cup {NoEp}

\* str.upper() of an episode code.
Upper(tok) ==
    CASE tok = "s01e01" -> "S01E01"
      [] tok = "s01e02" -> "S01E02"
      [] OTHER -> tok

\* The calls of sync_episode and of the command line's --episode: the
\* code as its documentation writes it, 'S01E03'.
EpisodeKinds ==
    { sync_tv_4k(FALSE, "A", "S01E01"), sync_tv_1080(FALSE, "A", "S01E01"),
      sync_tv_4k(FALSE, None, "S01E02") }

EpisodeNext ==
    /\ \/ \E s \in TvSources, d \in Movies, e \in EpTokens, t \in TargetKinds :
            AddNamedLink(s, d, FileName("m", {}, e), t)
       \/ \E a \in EpisodeKinds : StartPass("request", a)
       \/ Entry("request")
       \/ Replace("request")
       \/ Finish("request")
    /\ UNCHANGED drivers

SpecEpisode == Init /\ [][EpisodeNext]_vars

\* C23, as claimed: an entry that reaches the episode test of a pass
\* filtered to an episode is processed iff its name holds an episode code
\* equal to the filter, case apart.
C23_Claimed ==
    [][\A p \in Procs :
         LET r == run[p]
         IN  /\ r.pc = "loop" /\ r.is_tv /\ r.filter_episode # None
             /\ run'[p] # r /\ r.i <= Len(r.symlinks)
             /\ ~FilteredOut(r, r.symlinks[r.i].path)
             /\ "Broken symlink" \notin obs'[p].out
             => \A l \in LinkAt(srcFS, r.symlinks[r.i].path) :
                  "NEW" \in obs'[p].out <=>
                    /\ l.name.ep # NoEp
                    /\ Upper(l.name.ep) = Upper(r.filter_episode)]_vars

---------------------------------------------------------------------------
\* Passes whose wipe, or whose watermark file, fails.

FailKinds ==
    { sync_movies_4k(FALSE, None, FALSE), sync_movies_1080(FALSE, None),
      sync_movies_4k(FALSE, "A", TRUE), sync_movies_1080(TRUE, None) }

PassFailNext ==
    /\ \/ \E s \in MovieSources, d \in Movies, t \in TargetKinds : AddLink(s, d, t)
       \/ \E a \in FailKinds :
            StartPassFrom("request", a, MaxPasses, BOOLEAN, Procs)
       \/ Entry("request")
       \/ Replace("request")
       \/ Finish("request")
    /\ UNCHANGED drivers

SpecPassFail == Init /\ [][PassFailNext]_vars

\* The pass p starts was asked to wipe and left something of the folder.
WipeFailed(p) ==
    /\ WipeTarget(run'[p]) # None
    /\ \E d \in DOMAIN destFS' \cup DOMAIN tmpFS' :
         d.root = dest_root(run'[p].src) /\ d.dir = WipeTarget(run'[p])

\* The pass p starts is to honour the watermark and holds another value
\* than the file does: the file could not be read.
ReadFailed(p) ==
    /\ run'[p].pc = "loop" /\ run'[p].update_last_file
    /\ run'[p].prev_ts # ReadWm(wm'[run'[p].src])

\* C24, as claimed: no failure of the wipe or of the watermark file leaves
\* the pass as an exception, and each puts a failure line in the progress
\* stream.
C24_Claimed ==
    [][\A p \in Procs :
         /\ Starting(p) =>
              /\ run'[p].pc # "raised"
              /\ WipeFailed(p) => "Failed to remove" \in obs'[p].out
              /\ ReadFailed(p) => "Failed to read" \in obs'[p].out
         /\ obs'[p].wrote = "failed" /\ obs[p].wrote # "failed" =>
              "Failed to update timestamp file" \in obs'[p].out]_vars

---------------------------------------------------------------------------
\* Source directories that hold a link under a name already tagged, as a
\* pass left it, beside a link the upstream made anew under the plain name.

SourceNames == { LinkName("m"), TaggedName(LinkName("m"), "1080p") }

TagNext ==
    /\ \/ \E s \in MovieSources, d \in Movies, n \in SourceNames,
             t \in TargetKinds : AddNamedLink(s, d, n, t)
       \/ \E a \in PublishKinds : StartPass("scheduler", a)
       \/ Entry("scheduler")
       \/ Replace("scheduler")
       \/ Finish("scheduler")
    /\ UNCHANGED drivers

SpecTag == Init /\ [][TagNext]_vars

\* C27, as claimed: no step of a pass makes the source entries fewer.
C27_Claimed == [][Cardinality(srcFS') >= Cardinality(srcFS)]_vars

---------------------------------------------------------------------------
\* Two passes at once: the scheduler's and a request's, with no lock.

\* Time passes, whether or not a pass is running.
TickAny ==
    /\ clock < StartClock + MaxTicks
    /\ clock' = clock + 1
    /\ UNCHANGED <<srcFS, destFS, tmpFS, wm, run, obs, nRename, nClassify,
                   quiet, passes, faults>>

\* The processes whose passes overlap.
Overlapping == {"scheduler", "request"}

\* A pass of p starts whatever the other process is doing.
StartOverlapping(p, a) == StartPassFrom(p, a, MaxPasses, {TRUE}, {p})

OverlapNext ==
    /\ \/ TickAny
       \/ \E d \in Movies, t \in TargetKinds : AddLink("movies_1080", d, t)
       \/ \E p \in Overlapping :
            StartOverlapping(p, sync_movies_1080(FALSE, None))
       \/ \E p \in Overlapping : Entry(p)
       \/ \E p \in Overlapping : Replace(p)
       \/ \E p \in Overlapping : Finish(p)
    /\ UNCHANGED drivers

SpecOverlap == Init /\ [][OverlapNext]_vars

\* C26, as claimed: a pass that writes the watermark of its source does
\* not make it smaller.
C26_Claimed ==
    [][\A p \in Procs :
         obs'[p].wrote = "ok" /\ obs[p].wrote # "ok" =>
           ReadWm(wm'[run[p].src]) >= ReadWm(wm[run[p].src])]_vars

---------------------------------------------------------------------------
\* The publish of one entry, one system call at a time, by passes that run
\* at once.  Nothing fails here but by what the other pass did.

\* The publish of p is over, a link made (ok) or not: lines 383-391.
PubReturn(p, ok) ==
    /\ run' = [run EXCEPT ![p] =
         [@ EXCEPT !.pc = "loop", !.i = @ + 1,
                   !.processed_any = @ \/ ok,
                   !.target = NoTarget, !.dest_path = NoPath]]
    /\ obs' = [obs EXCEPT ![p] =
         IF ok
         THEN [@ EXCEPT !.muts = @ + 1, !.out = @ \cup {"Linked"}]
         ELSE [@ EXCEPT !.clean = FALSE,
                        !.failed = @ \cup {run[p].target.id},
                        !.out = @ \cup {"Link failed"}]]

\* p goes on to the next statement of its publish.
PubGoto(p, pc) ==
    /\ run' = [run EXCEPT ![p].pc = pc]
    /\ obs' = obs

\* What no statement of a publish touches.
PubFrame == <<clock, srcFS, wm, nRename, nClassify, quiet, passes, faults>>

\* Line 381: dest_path.exists() or dest_path.is_symlink().
PubCheck(p) ==
    /\ run[p].pc = "check"
    /\ IF AlreadyLinked(destFS, run[p].dest_path)
       THEN /\ run' = [run EXCEPT ![p] =
                 [@ EXCEPT !.pc = "loop", !.i = @ + 1,
                           !.target = NoTarget, !.dest_path = NoPath]]
            /\ obs' = [obs EXCEPT ![p].out = @ \cup {"Already linked"}]
       ELSE PubGoto(p, "tmp_exists")
    /\ UNCHANGED <<destFS, tmpFS>>
    /\ UNCHANGED PubFrame

\* Line 207: if tmp.exists().
PubTmpExists(p) ==
    /\ run[p].pc = "tmp_exists"
    /\ PubGoto(p, IF TmpExists(tmpFS, run[p].dest_path, TRUE)
                  THEN "tmp_unlink" ELSE "symlink")
    /\ UNCHANGED <<destFS, tmpFS>>
    /\ UNCHANGED PubFrame

\* Line 208: tmp.unlink(), FileNotFoundError if the link has gone since.
PubTmpUnlink(p) ==
    LET d == run[p].dest_path
    IN  /\ run[p].pc = "tmp_unlink"
        /\ IF d \in DOMAIN tmpFS
           THEN tmpFS' = Remove(tmpFS, d) /\ PubGoto(p, "symlink")
           ELSE tmpFS' = tmpFS /\ PubGoto(p, "finally_err")
        /\ UNCHANGED destFS
        /\ UNCHANGED PubFrame

\* Line 209: os.symlink(target, tmp), FileExistsError if tmp is there.
PubSymlink(p) ==
    LET d == run[p].dest_path
    IN  /\ run[p].pc = "symlink"
        /\ IF d \in DOMAIN tmpFS
           THEN tmpFS' = tmpFS /\ PubGoto(p, "finally_err")
           ELSE /\ tmpFS' = SymlinkTmp(destFS, tmpFS, d, run[p].target).tmp
                /\ PubGoto(p, "os_replace")
        /\ UNCHANGED destFS
        /\ UNCHANGED PubFrame

\* Line 210: os.replace(tmp, dest) moves whatever link is at tmp over
\* dest, FileNotFoundError if none is.
PubReplace(p) ==
    LET d == run[p].dest_path
    IN  /\ run[p].pc = "os_replace"
        /\ IF d \in DOMAIN tmpFS
           THEN /\ destFS' = Put(Remove(destFS, d), d, tmpFS[d])
                /\ tmpFS' = Remove(tmpFS, d)
                /\ PubGoto(p, "finally_ok")
           ELSE /\ UNCHANGED <<destFS, tmpFS>>
                /\ PubGoto(p, "finally_err")
        /\ UNCHANGED PubFrame

\* Line 212, in the finally block: if tmp.exists().  With no link to take
\* away atomic_symlink is left, by return or by the exception on its way.
PubFinally(p) ==
    LET ok == run[p].pc = "finally_ok"
    IN  /\ run[p].pc \in {"finally_ok", "finally_err"}
        /\ IF TmpExists(tmpFS, run[p].dest_path, TRUE)
           THEN PubGoto(p, IF ok THEN "unlink_ok" ELSE "unlink_err")
           ELSE PubReturn(p, ok)
        /\ UNCHANGED <<destFS, tmpFS>>
        /\ UNCHANGED PubFrame

\* Lines 213-216: tmp.unlink(), its failure swallowed.
PubFinUnlink(p) ==
    LET d == run[p].dest_path
    IN  /\ run[p].pc \in {"unlink_ok", "unlink_err"}
        /\ tmpFS' = IF d \in DOMAIN tmpFS THEN Remove(tmpFS, d) ELSE tmpFS
        /\ PubReturn(p, run[p].pc = "unlink_ok")
        /\ UNCHANGED destFS
        /\ UNCHANGED PubFrame

\* The passes that race: both movie sources publish under one root.
RaceKinds ==
    { sync_movies_4k(FALSE, None, FALSE), sync_movies_1080(FALSE, None) }

RaceNext ==
    /\ \/ \E s \in MovieSources, t \in TargetKinds :
            AddNamedLink(s, "A", TaggedName(LinkName("m"), "1080p"), t)
       \/ \E p \in Overlapping, a \in RaceKinds : StartOverlapping(p, a)
       \/ \E p \in Overlapping : EntryAt(p, TRUE)
       \/ \E p \in Overlapping : PubCheck(p)
       \/ \E p \in Overlapping : PubTmpExists(p)
       \/ \E p \in Overlapping : PubTmpUnlink(p)
       \/ \E p \in Overlapping : PubSymlink(p)
       \/ \E p \in Overlapping : PubReplace(p)
       \/ \E p \in Overlapping : PubFinally(p)
       \/ \E p \in Overlapping : PubFinUnlink(p)
       \/ \E p \in Overlapping : Finish(p)
    /\ UNCHANGED drivers

SpecRace == Init /\ [][RaceNext]_vars

\* No pass is inside a publish.
NoPublishing == \A p \in Procs : run[p].pc \notin PublishPcs

\* Part of C25: a rename onto the destination finds no entry there.
C25_NeverReplaced ==
    [][\A p \in Procs :
         run[p].pc = "os_replace" /\ run'[p].pc = "finally_ok" =>
           run[p].dest_path \notin DOMAIN destFS]_vars

\* Part of C25: between publishes no temporary link is there.
C25_NoTmpLeft == NoPublishing => tmpFS = << >>

\* Part of C25: when the last of the passes publishing a path leaves its
\* publish without a link made, the path holds a complete link.
C25_EndsLinked ==
    [][\A p \in Procs :
         /\ run[p].pc \in PublishPcs
         /\ run'[p].pc \notin PublishPcs
         /\ \A q \in Procs \ {p} :
               ~(run[q].pc \in PublishPcs /\ run[q].dest_path = run[p].dest_path)
         => /\ run[p].dest_path \in DOMAIN destFS'
            /\ destFS'[run[p].dest_path].to # "partial"]_vars

\* C25, as claimed: whatever the interleaving of the statements of two
\* publishes of one path, an entry at the destination is never replaced,
\* no temporary link is left and the destination ends as a complete link.
C25_Claimed == C25_NeverReplaced /\ []C25_NoTmpLeft /\ C25_EndsLinked

====
